---- MODULE Spec2Model ----
(***************************************************************************)
(* The DNS-01 challenge tool of src/main.go as a state machine: one run of *)
(* main(), one step per remote call.  A remote call is the request that    *)
(* is posted (appended to `calls`) together with the reply the backend     *)
(* gives (kept in `reply` until the next call), and what the calling       *)
(* function makes of that reply.                                           *)
(***************************************************************************)
EXTENDS Integers, Sequences, FiniteSets, TLC

VARIABLES
    args,       \* os.Args: argc = len(os.Args), then action, domain, value
    pc,         \* the position of main()
    calls,      \* the requests posted so far, in order
    reply,      \* the reply to the last request
    sessionId,  \* main's sessionId
    found,      \* getZoneInfo's locals serverID, zoneID, sysUserID
    zoneInfo,   \* main's zoneInfo (what getZoneInfo returned)
    recordId,   \* main's recordId (what addTxt returned)
    recordID,   \* removeTxt's local recordID
    response,   \* removeTxt's map response: its entry "code"
    err,        \* the error returned by the last function called, or Nil
    fatal,      \* the message the process died with, "" if none
    exitCode    \* the process exit status, once pc = "exited"

vars == <<args, pc, calls, reply, sessionId, found, zoneInfo, recordId,
          recordID, response, err, fatal, exitCode>>

----------------------------------------------------------------------------
(* Bounds and inputs *)

MaxDomainLen == 4

StatusOK == 200

Chars == {"a", "b", "."}

Domains == UNION {[1..n -> Chars] : n \in 0..MaxDomainLen}

Actions == {"present", "cleanup", "renew"}

Values == {"abc123"}

Statuses == {200, 201, 500}

Quote == "\""

Nil == "nil"

----------------------------------------------------------------------------
(* Strings as sequences of characters *)

\* strings.Split(s, "."): the parts between the separators; one part for a
\* string without separator, the empty string included.
RECURSIVE Split(_)
Split(s) ==
    IF \A i \in 1..Len(s) : s[i] # "."
    THEN <<s>>
    ELSE LET i == CHOOSE k \in 1..Len(s) :
                      s[k] = "." /\ \A j \in 1..(k - 1) : s[j] # "."
         IN  <<SubSeq(s, 1, i - 1)>> \o Split(SubSeq(s, i + 1, Len(s)))

\* strings.Trim(s, "\""): s without its leading and trailing quote characters.
RECURSIVE Trim(_)
Trim(s) ==
    IF Len(s) = 0 THEN s
    ELSE IF s[1] = Quote THEN Trim(SubSeq(s, 2, Len(s)))
    ELSE IF s[Len(s)] = Quote THEN Trim(SubSeq(s, 1, Len(s) - 1))
    ELSE s

----------------------------------------------------------------------------
(* Replies of the backend.                                                 *)
(*   neterr    http.Post returned an error (no response at all)            *)
(*   status    the HTTP status code                                        *)
(*   json      the body is a JSON object                                   *)
(*   codekind  the JSON type of the body's "code" field, "absent" if none  *)
(*   code      its value when it is a string                               *)
(*   kind      the JSON type of the body's "response" field                *)
(*   str, chars, num, list   its value when it is a string (chars for the  *)
(*             login reply, read character by character), a number, a list *)

Reply(neterr, status, json, codekind, code, kind, str, chars, num, list) ==
    [neterr |-> neterr, status |-> status, json |-> json,
     codekind |-> codekind, code |-> code, kind |-> kind,
     str |-> str, chars |-> chars, num |-> num, list |-> list]

NoReply == Reply(TRUE, 0, FALSE, "absent", "", "absent", "", <<>>, 0, <<>>)

NotJson(s) == Reply(FALSE, s, FALSE, "absent", "", "absent", "", <<>>, 0, <<>>)

CodeFields ==
    {<<"string", "ok">>, <<"string", "error">>, <<"string", "OK">>,
     <<"number", "">>, <<"absent", "">>}

Failures == {NoReply} \cup {NotJson(s) : s \in Statuses}

LoginStrings == {<<"s">>, <<Quote, "s", Quote>>, <<"s", Quote, "t">>}

LoginReplies ==
    Failures
    \cup {Reply(FALSE, s, TRUE, c[1], c[2], "string", "", x, 0, <<>>) :
             s \in Statuses, c \in CodeFields, x \in LoginStrings}
    \cup {Reply(FALSE, s, TRUE, c[1], c[2], k, "", <<>>, 0, <<>>) :
             s \in Statuses, c \in CodeFields, k \in {"number", "absent"}}

Zone(id) == [id |-> id, server_id |-> "S1", sys_userid |-> "U1"]

ZoneLists ==
    {<<>>, <<Zone("Z1")>>, <<Zone("")>>, <<Zone("Z1"), Zone("")>>,
     <<Zone(""), Zone("Z1")>>}

ZoneReplies ==
    Failures
    \cup {Reply(FALSE, s, TRUE, c[1], c[2], "list", "", <<>>, 0, l) :
             s \in Statuses, c \in {<<"string", "ok">>, <<"number", "">>},
             l \in ZoneLists}
    \cup {Reply(FALSE, s, TRUE, "string", "ok", k, "", <<>>, 0, <<>>) :
             s \in Statuses, k \in {"string", "absent"}}

ClientReplies ==
    Failures
    \cup {Reply(FALSE, s, TRUE, c[1], c[2], "number", "", <<>>, n, <<>>) :
             s \in Statuses, c \in {<<"string", "ok">>, <<"absent", "">>},
             n \in {0, 42}}
    \cup {Reply(FALSE, s, TRUE, "string", "ok", k, "", <<>>, 0, <<>>) :
             s \in Statuses, k \in {"string", "absent"}}

AddReplies ==
    Failures
    \cup {Reply(FALSE, s, TRUE, c[1], c[2], "string", x, <<>>, 0, <<>>) :
             s \in Statuses, c \in {<<"string", "ok">>, <<"string", "error">>},
             x \in {"REC-9", ""}}
    \cup {Reply(FALSE, s, TRUE, "string", "ok", k, "", <<>>, 0, <<>>) :
             s \in Statuses, k \in {"number", "list", "absent"}}

Record(obj, idkind, id) == [obj |-> obj, idkind |-> idkind, id |-> id]

RecordLists ==
    {<<>>, <<Record(TRUE, "string", "R1")>>,
     <<Record(TRUE, "string", "R1"), Record(TRUE, "string", "R2")>>,
     <<Record(TRUE, "string", "R2"), Record(TRUE, "string", "R1")>>,
     <<Record(FALSE, "absent", "")>>, <<Record(TRUE, "number", "")>>,
     <<Record(TRUE, "absent", "")>>}

GetReplies ==
    Failures
    \cup {Reply(FALSE, s, TRUE, c[1], c[2], "list", "", <<>>, 0, l) :
             s \in Statuses, c \in CodeFields, l \in RecordLists}
    \cup {Reply(FALSE, s, TRUE, "string", "ok", k, "", <<>>, 0, <<>>) :
             s \in Statuses, k \in {"string", "absent"}}

DeleteReplies ==
    Failures
    \cup {Reply(FALSE, s, TRUE, c[1], c[2], k, "", <<>>, 0, <<>>) :
             s \in Statuses, c \in CodeFields, k \in {"number", "absent"}}

----------------------------------------------------------------------------
(* Errors *)

ErrTransport == "transport error"

ErrDecode == "json decode error"

ErrLogin == "failed to retrieve session ID"

ErrInvalidDomain == "invalid domain format"

ErrZoneStatus == "failed to retrieve zone information"

ErrClientStatus == "failed to retrieve client ID"

ErrHttpStatus == "HTTP request failed with status code"

ErrExtractRecordID == "failed to extract record ID from response"

ErrNoRecord == "No TXT record found"

ErrRecordFormat == "Invalid record format"

ErrRecordID == "Failed to extract record ID"

ErrDelete == "Failed to delete TXT record"

ErrRetrieve == "Failed to retrieve TXT record"

PanicIndex == "panic: index out of range"

----------------------------------------------------------------------------
(* What each function makes of its input and of the reply it gets *)

\* ArgsError without the check that "present" comes with a value.
ArgsErrorNoValueCheck(a) ==
    IF a.argc < 3 THEN "Invalid number of arguments"
    ELSE IF a.domain = <<>> THEN "Empty domain"
    ELSE Nil

\* main: the checks of the arguments before the first call.
ArgsError(a) ==
    IF a.argc < 3 THEN "Invalid number of arguments"
    ELSE IF a.action = "present" /\ a.argc < 4
         THEN "Not enough arguments for 'present' action"
    ELSE IF a.domain = <<>> THEN "Empty domain"
    ELSE Nil

\* login: the decoding into loginResponse {Code string; Response string}.
LoginDecodes(r) ==
    /\ r.json
    /\ r.codekind \in {"string", "absent"}
    /\ r.kind \in {"string", "absent"}

\* LoginResult without the check of the reply's code.
LoginResultNoCodeCheck(r) ==
    IF r.neterr THEN [sessionId |-> <<>>, err |-> ErrTransport]
    ELSE IF ~LoginDecodes(r) THEN [sessionId |-> <<>>, err |-> ErrDecode]
    ELSE [sessionId |-> Trim(r.chars), err |-> Nil]

\* login: no check of the HTTP status.
LoginResult(r) ==
    IF r.neterr THEN [sessionId |-> <<>>, err |-> ErrTransport]
    ELSE IF ~LoginDecodes(r) THEN [sessionId |-> <<>>, err |-> ErrDecode]
    ELSE IF r.code # "ok" THEN [sessionId |-> <<>>, err |-> ErrLogin]
    ELSE [sessionId |-> Trim(r.chars), err |-> Nil]

\* ZoneKey with the first two parts in place of the two before the last.
ZoneKeyFirstParts(domain) ==
    LET parts == Split(domain)
        n == Len(parts)
    IN  IF n < 2 THEN [err |-> ErrInvalidDomain, panic |-> FALSE, key |-> <<>>]
        ELSE IF n - 3 < 0 THEN [err |-> Nil, panic |-> TRUE, key |-> <<>>]
        ELSE [err |-> Nil, panic |-> FALSE,
              key |-> parts[1] \o <<".">> \o parts[2] \o <<".">>]

\* getZoneInfo: the zone-apex candidate.  parts[len(parts)-3] of a domain
\* of two parts is an index out of range.
ZoneKey(domain) ==
    LET parts == Split(domain)
        n == Len(parts)
    IN  IF n < 2 THEN [err |-> ErrInvalidDomain, panic |-> FALSE, key |-> <<>>]
        ELSE IF n - 3 < 0 THEN [err |-> Nil, panic |-> TRUE, key |-> <<>>]
        ELSE [err |-> Nil, panic |-> FALSE,
              key |-> parts[n - 2] \o <<".">> \o parts[n - 1] \o <<".">>]

NoZone == [serverID |-> "", zoneID |-> "", sysUserID |-> ""]

\* getZoneInfo: the decoding into zoneApiResponse.
ZoneDecodes(r) ==
    /\ r.json
    /\ r.codekind \in {"string", "absent"}
    /\ r.kind \in {"list", "absent"}

\* ZoneResult without the check of the HTTP status.
ZoneResultNoStatusCheck(r) ==
    IF r.neterr THEN [err |-> ErrTransport, panic |-> FALSE, found |-> NoZone]
    ELSE IF ~ZoneDecodes(r)
         THEN [err |-> ErrDecode, panic |-> FALSE, found |-> NoZone]
    ELSE IF Len(r.list) = 0
         THEN [err |-> Nil, panic |-> TRUE, found |-> NoZone]
    ELSE IF r.list[1].id # ""
         THEN [err |-> Nil, panic |-> FALSE,
               found |-> [serverID |-> r.list[1].server_id,
                          zoneID |-> r.list[1].id,
                          sysUserID |-> r.list[1].sys_userid]]
    ELSE [err |-> Nil, panic |-> FALSE, found |-> NoZone]

\* getZoneInfo: the reply to dns_zone_get.  Response[0] of an empty list is
\* an index out of range.
ZoneResult(r) ==
    IF r.neterr THEN [err |-> ErrTransport, panic |-> FALSE, found |-> NoZone]
    ELSE IF r.status # StatusOK
         THEN [err |-> ErrZoneStatus, panic |-> FALSE, found |-> NoZone]
    ELSE IF ~ZoneDecodes(r)
         THEN [err |-> ErrDecode, panic |-> FALSE, found |-> NoZone]
    ELSE IF Len(r.list) = 0
         THEN [err |-> Nil, panic |-> TRUE, found |-> NoZone]
    ELSE IF r.list[1].id # ""
         THEN [err |-> Nil, panic |-> FALSE,
               found |-> [serverID |-> r.list[1].server_id,
                          zoneID |-> r.list[1].id,
                          sysUserID |-> r.list[1].sys_userid]]
    ELSE [err |-> Nil, panic |-> FALSE, found |-> NoZone]

\* getZoneInfo: the reply to client_get_id, decoded into {Response int}.
ClientResult(r) ==
    IF r.neterr THEN [err |-> ErrTransport, clientId |-> 0]
    ELSE IF r.status # StatusOK THEN [err |-> ErrClientStatus, clientId |-> 0]
    ELSE IF ~(r.json /\ r.kind \in {"number", "absent"})
         THEN [err |-> ErrDecode, clientId |-> 0]
    ELSE [err |-> Nil, clientId |-> r.num]

\* addTxt: the parameters of the record.
AddParams(serverID, zone, fulldomain, txtValue) ==
    [server_id |-> serverID, zone |-> zone, name |-> fulldomain,
     type |-> "txt", data |-> txtValue, aux |-> "0", ttl |-> "3600",
     active |-> "y"]

\* AddResult without the check of the HTTP status.
AddResultNoStatusCheck(r) ==
    IF r.neterr THEN [recordId |-> "", err |-> ErrTransport]
    ELSE IF ~r.json THEN [recordId |-> "", err |-> ErrDecode]
    ELSE IF r.kind # "string"
         THEN [recordId |-> "", err |-> ErrExtractRecordID]
    ELSE [recordId |-> r.str, err |-> Nil]

\* addTxt: the reply to dns_txt_add, decoded into a map.
AddResult(r) ==
    IF r.neterr THEN [recordId |-> "", err |-> ErrTransport]
    ELSE IF r.status # StatusOK THEN [recordId |-> "", err |-> ErrHttpStatus]
    ELSE IF ~r.json THEN [recordId |-> "", err |-> ErrDecode]
    ELSE IF r.kind # "string"
         THEN [recordId |-> "", err |-> ErrExtractRecordID]
    ELSE [recordId |-> r.str, err |-> Nil]

\* GetRequest without the session ID it was given.
GetRequestNoSession(sessionID, fulldomain) ==
    [ep |-> "dns_txt_get", session_id |-> <<>>,
     name |-> fulldomain, type |-> "TXT"]

\* removeTxt: the request posted to dns_txt_get.
GetRequest(sessionID, fulldomain) ==
    [ep |-> "dns_txt_get", session_id |-> sessionID,
     name |-> fulldomain, type |-> "TXT"]

\* GetResult taking the record ID of the last entry of the result list.
GetResultLastRecord(r) ==
    IF r.neterr THEN [recordID |-> "", err |-> ErrTransport]
    ELSE IF r.status # StatusOK THEN [recordID |-> "", err |-> ErrHttpStatus]
    ELSE IF ~r.json THEN [recordID |-> "", err |-> ErrDecode]
    ELSE IF ~(r.codekind = "string" /\ r.code = "ok")
         THEN [recordID |-> "", err |-> ErrRetrieve]
    ELSE IF r.kind # "list" \/ Len(r.list) = 0
         THEN [recordID |-> "", err |-> ErrNoRecord]
    ELSE IF ~r.list[Len(r.list)].obj
         THEN [recordID |-> "", err |-> ErrRecordFormat]
    ELSE IF r.list[Len(r.list)].idkind # "string"
         THEN [recordID |-> "", err |-> ErrRecordID]
    ELSE [recordID |-> r.list[Len(r.list)].id, err |-> Nil]

\* GetResult taking an empty result list for nothing left to do.
GetResultEmptyDone(r) ==
    IF r.neterr THEN [recordID |-> "", err |-> ErrTransport]
    ELSE IF r.status # StatusOK THEN [recordID |-> "", err |-> ErrHttpStatus]
    ELSE IF ~r.json THEN [recordID |-> "", err |-> ErrDecode]
    ELSE IF ~(r.codekind = "string" /\ r.code = "ok")
         THEN [recordID |-> "", err |-> ErrRetrieve]
    ELSE IF r.kind # "list" \/ Len(r.list) = 0
         THEN [recordID |-> "", err |-> Nil]
    ELSE IF ~r.list[1].obj THEN [recordID |-> "", err |-> ErrRecordFormat]
    ELSE IF r.list[1].idkind # "string"
         THEN [recordID |-> "", err |-> ErrRecordID]
    ELSE [recordID |-> r.list[1].id, err |-> Nil]

\* removeTxt: the reply to dns_txt_get, decoded into a map.
GetResult(r) ==
    IF r.neterr THEN [recordID |-> "", err |-> ErrTransport]
    ELSE IF r.status # StatusOK THEN [recordID |-> "", err |-> ErrHttpStatus]
    ELSE IF ~r.json THEN [recordID |-> "", err |-> ErrDecode]
    ELSE IF ~(r.codekind = "string" /\ r.code = "ok")
         THEN [recordID |-> "", err |-> ErrRetrieve]
    ELSE IF r.kind # "list" \/ Len(r.list) = 0
         THEN [recordID |-> "", err |-> ErrNoRecord]
    ELSE IF ~r.list[1].obj THEN [recordID |-> "", err |-> ErrRecordFormat]
    ELSE IF r.list[1].idkind # "string"
         THEN [recordID |-> "", err |-> ErrRecordID]
    ELSE [recordID |-> r.list[1].id, err |-> Nil]

NoCode == [kind |-> "absent", value |-> ""]

\* removeTxt: json.Decode of a reply's body into the map response.  The
\* decoder keeps the entries of a map that is not nil and stores the
\* body's entries over them: a body without "code" leaves the entry as it
\* was.
DecodeInto(map, r) ==
    IF r.codekind = "absent" THEN map
    ELSE [kind |-> r.codekind, value |-> r.code]

\* removeTxt: the reply to dns_txt_delete, decoded into the map that holds
\* the reply to dns_txt_get.
DeleteResult(map, r) ==
    IF r.neterr THEN ErrTransport
    ELSE IF r.status # StatusOK THEN ErrHttpStatus
    ELSE IF ~r.json THEN ErrDecode
    ELSE IF DecodeInto(map, r).kind = "string"
            /\ DecodeInto(map, r).value = "ok" THEN Nil
    ELSE ErrDelete

\* Dispatch with the cleanup case as the default of the switch.
DispatchDefaultCleanup(action) ==
    IF action = "present" THEN "addTxt" ELSE "removeTxt"

\* main: what follows a successful getZoneInfo.
Dispatch(action) ==
    IF action = "present" THEN "addTxt"
    ELSE IF action = "cleanup" THEN "removeTxt"
    ELSE "exited"

----------------------------------------------------------------------------
(* The run *)

NoArg == [argc |-> 1, action |-> "", domain |-> <<>>, value |-> ""]

ArgLists ==
    {NoArg}
    \cup {[NoArg EXCEPT !.argc = 2, !.action = a] : a \in Actions}
    \cup {[NoArg EXCEPT !.argc = 3, !.action = a, !.domain = d] :
             a \in Actions, d \in Domains}
    \cup {[argc |-> 4, action |-> a, domain |-> d, value |-> v] :
             a \in Actions, d \in Domains, v \in Values}

NoZoneInfo == [ServerID |-> "", ID |-> "", SysUserID |-> "", ClientId |-> 0]

Init ==
    /\ args \in ArgLists
    /\ pc = "main"
    /\ calls = <<>>
    /\ reply = NoReply
    /\ sessionId = <<>>
    /\ found = NoZone
    /\ zoneInfo = NoZoneInfo
    /\ recordId = ""
    /\ recordID = ""
    /\ response = NoCode
    /\ err = Nil
    /\ fatal = ""
    /\ exitCode = 0

\* logger.Fatal(msg): os.Exit(1).  A run-time panic: exit status 2.
Die(msg, code) ==
    /\ pc' = "exited"
    /\ fatal' = msg
    /\ exitCode' = code

\* main, up to the call of login.
Main ==
    /\ pc = "main"
    /\ IF ArgsError(args) # Nil
       THEN Die(ArgsError(args), 1)
       ELSE pc' = "login" /\ UNCHANGED <<fatal, exitCode>>
    /\ UNCHANGED <<args, calls, reply, sessionId, found, zoneInfo, recordId,
                   recordID, response, err>>

\* Login with main logging the error of login and going on.
LoginLogsError ==
    /\ pc = "login"
    /\ \E r \in LoginReplies :
         LET res == LoginResult(r) IN
         /\ calls' = Append(calls, [ep |-> "login"])
         /\ reply' = r
         /\ sessionId' = res.sessionId
         /\ err' = res.err
         /\ pc' = "getZoneInfo"
    /\ UNCHANGED <<args, found, zoneInfo, recordId, recordID, response,
                   fatal, exitCode>>

\* login, and main's check of its error.
Login ==
    /\ pc = "login"
    /\ \E r \in LoginReplies :
         LET res == LoginResult(r) IN
         /\ calls' = Append(calls, [ep |-> "login"])
         /\ reply' = r
         /\ sessionId' = res.sessionId
         /\ err' = res.err
         /\ IF res.err # Nil
            THEN Die("Failed to login", 1)
            ELSE pc' = "getZoneInfo" /\ UNCHANGED <<fatal, exitCode>>
    /\ UNCHANGED <<args, found, zoneInfo, recordId, recordID, response>>

\* getZoneInfo up to the call of client_get_id, and main's check of its
\* error when it returns before.
DnsZoneGet ==
    /\ pc = "getZoneInfo"
    /\ LET k == ZoneKey(args.domain) IN
       IF k.err # Nil
       THEN /\ err' = k.err
            /\ Die("Failed to get zone info", 1)
            /\ UNCHANGED <<calls, reply, found>>
       ELSE IF k.panic
       THEN /\ Die(PanicIndex, 2)
            /\ UNCHANGED <<calls, reply, found, err>>
       ELSE \E r \in ZoneReplies :
              LET res == ZoneResult(r) IN
              /\ calls' = Append(calls, [ep |-> "dns_zone_get",
                                         session_id |-> sessionId,
                                         origin |-> k.key])
              /\ reply' = r
              /\ found' = res.found
              /\ err' = res.err
              /\ IF res.err # Nil THEN Die("Failed to get zone info", 1)
                 ELSE IF res.panic THEN Die(PanicIndex, 2)
                 ELSE pc' = "client_get_id" /\ UNCHANGED <<fatal, exitCode>>
    /\ UNCHANGED <<args, sessionId, zoneInfo, recordId, recordID, response>>

\* The rest of getZoneInfo, and main up to the call its switch selects.
ClientGetId ==
    /\ pc = "client_get_id"
    /\ \E r \in ClientReplies :
         LET res == ClientResult(r) IN
         /\ calls' = Append(calls, [ep |-> "client_get_id",
                                    session_id |-> sessionId,
                                    sys_userid |-> found.sysUserID])
         /\ reply' = r
         /\ err' = res.err
         /\ IF res.err # Nil
            THEN /\ Die("Failed to get zone info", 1)
                 /\ UNCHANGED zoneInfo
            ELSE /\ zoneInfo' = [ServerID |-> found.serverID,
                                 ID |-> found.zoneID,
                                 SysUserID |-> found.sysUserID,
                                 ClientId |-> res.clientId]
                 /\ pc' = Dispatch(args.action)
                 /\ UNCHANGED <<fatal, exitCode>>
    /\ UNCHANGED <<args, sessionId, found, recordId, recordID, response>>

\* addTxt, and the "present" case of main after it.
AddTxt ==
    /\ pc = "addTxt"
    /\ \E r \in AddReplies :
         LET res == AddResult(r) IN
         /\ calls' = Append(calls,
                [ep |-> "dns_txt_add", session_id |-> sessionId,
                 client_id |-> zoneInfo.ClientId,
                 params |-> AddParams(zoneInfo.ServerID, zoneInfo.ID,
                                      args.domain, args.value),
                 update_serial |-> TRUE])
         /\ reply' = r
         /\ recordId' = res.recordId
         /\ err' = res.err
         /\ IF res.err # Nil THEN Die("Failed to add record", 1)
                             ELSE Die("", 0)
    /\ UNCHANGED <<args, sessionId, found, zoneInfo, recordID, response>>

\* removeTxt up to the call of dns_txt_delete, and main's check of its error
\* when it returns before.
DnsTxtGet ==
    /\ pc = "removeTxt"
    /\ \E r \in GetReplies :
         LET res == GetResult(r) IN
         /\ calls' = Append(calls, GetRequest(sessionId, args.domain))
         /\ reply' = r
         /\ recordID' = res.recordID
         /\ response' = IF r.neterr \/ r.status # StatusOK \/ ~r.json
                         THEN response
                         ELSE DecodeInto(NoCode, r)
         /\ err' = res.err
         /\ IF res.err # Nil
            THEN Die("Failed to remove record", 1)
            ELSE pc' = "dns_txt_delete" /\ UNCHANGED <<fatal, exitCode>>
    /\ UNCHANGED <<args, sessionId, found, zoneInfo, recordId>>

\* The rest of removeTxt, and the "cleanup" case of main after it.
DnsTxtDelete ==
    /\ pc = "dns_txt_delete"
    /\ \E r \in DeleteReplies :
         /\ calls' = Append(calls, [ep |-> "dns_txt_delete",
                                    session_id |-> sessionId,
                                    primary_id |-> recordID,
                                    update_serial |-> TRUE])
         /\ reply' = r
         /\ response' = IF r.neterr \/ r.status # StatusOK \/ ~r.json
                         THEN response
                         ELSE DecodeInto(response, r)
         /\ err' = DeleteResult(response, r)
         /\ IF DeleteResult(response, r) # Nil
            THEN Die("Failed to remove record", 1)
            ELSE Die("", 0)
    /\ UNCHANGED <<args, sessionId, found, zoneInfo, recordId, recordID>>

Next ==
    \/ Main
    \/ Login
    \/ DnsZoneGet
    \/ ClientGetId
    \/ AddTxt
    \/ DnsTxtGet
    \/ DnsTxtDelete

Spec == Init /\ [][Next]_vars

----------------------------------------------------------------------------
(* Properties *)

\* The endpoints called so far, in order.
Endpoints == [i \in 1..Len(calls) |-> calls[i].ep]

Issued(ep) == \E i \in 1..Len(calls) : calls[i].ep = ep

LastCall == calls[Len(calls)]

IsPrefix(s, t) == Len(s) <= Len(t) /\ s = SubSeq(t, 1, Len(s))

\* login has returned, and nothing was called since.
LoginReturned ==
    /\ Len(calls) = 1
    /\ pc = "getZoneInfo" \/ fatal = "Failed to login"

\* getZoneInfo was called and is past its splitting of the domain.
GetZoneInfoSplit ==
    /\ Len(calls) >= 1
    /\ pc \notin {"main", "login", "getZoneInfo"}
    /\ fatal # "Failed to login"

\* addTxt has returned.
AddTxtReturned == pc = "exited" /\ Issued("dns_txt_add")

\* The last call was dns_txt_get and the reply was a decodable body with
\* code "ok" and an empty result list, under a status of the set S.
EmptyLookup(S) ==
    /\ Len(calls) > 0 /\ LastCall.ep = "dns_txt_get"
    /\ ~reply.neterr /\ reply.status \in S /\ reply.json
    /\ reply.codekind = "string" /\ reply.code = "ok"
    /\ reply.kind = "list" /\ reply.list = <<>>

\* The last call was dns_txt_delete and the reply rejected it by its code.
DeleteRejected ==
    /\ Len(calls) > 0 /\ LastCall.ep = "dns_txt_delete"
    /\ ~reply.neterr /\ reply.status = 200 /\ reply.json
    /\ reply.codekind # "absent"
    /\ ~(reply.codekind = "string" /\ reply.code = "ok")

\* C1: in a cleanup run the calls issued are login, then dns_txt_get, then
\* dns_txt_delete, and never dns_zone_get or client_get_id.
C1_CleanupWithoutZoneResolution ==
    args.action = "cleanup" =>
        /\ IsPrefix(Endpoints, <<"login", "dns_txt_get", "dns_txt_delete">>)
        /\ ~Issued("dns_zone_get")
        /\ ~Issued("client_get_id")

\* C2: for a domain of fewer than 3 parts getZoneInfo returns the
\* invalid-domain-format error and issues no call.
C2_ShortDomainIsInvalidFormat ==
    (GetZoneInfoSplit /\ Len(Split(args.domain)) < 3) =>
        /\ err = ErrInvalidDomain
        /\ Endpoints = <<"login">>

\* C3 as stated: addTxt returns a record ID and no error exactly when the
\* reply has a 2xx status and a "response" field that is a string.
C3_AddTxtOkIff2xxAndString ==
    AddTxtReturned =>
        /\ (err = Nil) <=>
               (/\ ~reply.neterr /\ reply.status \in 200..299
                /\ reply.json /\ reply.kind = "string")
        /\ err = Nil => recordId = reply.str

\* C3 as amended: addTxt returns a record ID and no error exactly when the
\* reply has the status 200 and a "response" field that is a string; the ID
\* is that string.
C3_AddTxtOkIff200AndString ==
    AddTxtReturned =>
        /\ (err = Nil) <=>
               (/\ ~reply.neterr /\ reply.status = 200
                /\ reply.json /\ reply.kind = "string")
        /\ err = Nil => recordId = reply.str

C3_Witness ==
    /\ AddTxtReturned /\ err = Nil /\ recordId = "REC-9"
    /\ reply.status = 200

\* C4: addTxt never returns the empty record ID together with a nil error.
C4_AddTxtNoEmptyIdWithoutError ==
    (AddTxtReturned /\ err = Nil) => recordId # ""

\* C5: the exit status is zero only when dns_txt_add returned a record ID
\* in a present run or dns_txt_delete returned the code "ok" in a cleanup
\* run.
C5_ExitZeroOnlyOnSuccess ==
    (pc = "exited" /\ exitCode = 0) =>
        \/ /\ args.action = "present"
           /\ LastCall.ep = "dns_txt_add" /\ err = Nil
        \/ /\ args.action = "cleanup"
           /\ LastCall.ep = "dns_txt_delete"
           /\ reply.codekind = "string" /\ reply.code = "ok"

\* C6: login returns no error exactly when a reply came, its body decodes
\* (an object whose code and response are strings or absent) and its code
\* is "ok"; with an error the session ID returned is empty.
C6_LoginOkIffCodeOk ==
    LoginReturned =>
        /\ (err = Nil) <=>
               (/\ ~reply.neterr /\ reply.json
                /\ reply.kind \in {"string", "absent"}
                /\ reply.codekind = "string" /\ reply.code = "ok")
        /\ err # Nil => sessionId = <<>>

C6_Witness ==
    /\ LoginReturned /\ err = Nil
    /\ reply.chars = <<Quote, "s", Quote>> /\ sessionId = <<"s">>

\* C7 as stated: after a dns_txt_get reply of a 2xx status, code "ok" and
\* an empty result list, removeTxt has returned the not-found error with no
\* delete call and the run has ended with a non-zero exit; a rejected
\* delete call gives another error.
C7_EmptyLookup2xxIsNotFound ==
    /\ EmptyLookup(200..299) =>
           /\ err = ErrNoRecord /\ err # ErrDelete
           /\ ~Issued("dns_txt_delete")
           /\ pc = "exited" /\ exitCode # 0
    /\ DeleteRejected => (err = ErrDelete /\ err # ErrNoRecord)

\* C7 as amended: the same after a dns_txt_get reply of the status 200.
C7_EmptyLookup200IsNotFound ==
    /\ EmptyLookup({200}) =>
           /\ err = ErrNoRecord /\ err # ErrDelete
           /\ ~Issued("dns_txt_delete")
           /\ pc = "exited" /\ exitCode # 0
    /\ DeleteRejected => (err = ErrDelete /\ err # ErrNoRecord)

C7_Witness ==
    /\ EmptyLookup({200}) /\ args.action = "cleanup"
    /\ err = ErrNoRecord /\ exitCode = 1

\* C8: in a present run the one dns_txt_add call carries the domain as
\* name, the type TXT, the value as data, the ttl 3600, and the server ID,
\* zone ID and client ID that getZoneInfo returned.
C8_AddCallParameters ==
    Issued("dns_txt_add") =>
        /\ args.action = "present"
        /\ Cardinality({i \in 1..Len(calls) : calls[i].ep = "dns_txt_add"}) = 1
        /\ LastCall.ep = "dns_txt_add"
        /\ LastCall.params.name = args.domain
        /\ LastCall.params.type = "TXT"
        /\ LastCall.params.data = args.value
        /\ LastCall.params.ttl = "3600"
        /\ LastCall.params.server_id = zoneInfo.ServerID
        /\ LastCall.params.zone = zoneInfo.ID
        /\ LastCall.client_id = zoneInfo.ClientId

\* The positions of the separators of a domain, and the k-th of them from
\* the end (0 when there are fewer).
Dots(d) == {i \in 1..Len(d) : d[i] = "."}

DotFromEnd(d, k) ==
    IF Cardinality(Dots(d)) < k THEN 0
    ELSE CHOOSE i \in Dots(d) : Cardinality({j \in Dots(d) : j >= i}) = k

\* The characters of d strictly between the positions lo and hi.
Between(d, lo, hi) == SubSeq(d, lo + 1, hi - 1)

\* C9: for a domain of at least 3 parts the key of the dns_zone_get call is
\* the third-from-last part, a separator, the second-from-last part and a
\* separator.
C9_ZoneKeyIsApexCandidate ==
    (GetZoneInfoSplit /\ Cardinality(Dots(args.domain)) >= 2) =>
        LET d == args.domain IN
        /\ Len(calls) >= 2
        /\ calls[2].ep = "dns_zone_get"
        /\ calls[2].origin =
               Between(d, DotFromEnd(d, 3), DotFromEnd(d, 2)) \o <<".">>
               \o Between(d, DotFromEnd(d, 2), DotFromEnd(d, 1)) \o <<".">>

C9_Witness ==
    /\ Issued("dns_zone_get")
    /\ args.domain = <<"b", ".", "a", ".">>
    /\ calls[2].origin = <<"b", ".", "a", ".">>

\* C10: with fewer than 2 positional arguments, with "present" and no
\* value, or with an empty domain, the run ends with a non-zero exit and no
\* call is ever issued.
C10_BadArgumentsFailBeforeAnyCall ==
    (\/ args.argc < 3
     \/ args.action = "present" /\ args.argc < 4
     \/ args.domain = <<>>) =>
        /\ calls = <<>>
        /\ pc \in {"main", "exited"}
        /\ pc = "exited" => exitCode # 0

C10_Witness ==
    /\ pc = "exited" /\ exitCode = 1 /\ calls = <<>>
    /\ args.action = "present" /\ args.argc = 3 /\ args.domain # <<>>

\* The last call was dns_zone_get and the reply, under a status of the set
\* S, was a decodable body that names no zone: no first entry in the result
\* list, or a first entry with an empty ID.
ZoneNotFound(S) ==
    /\ Len(calls) > 0 /\ LastCall.ep = "dns_zone_get"
    /\ ~reply.neterr /\ reply.status \in S /\ reply.json
    /\ reply.codekind \in {"string", "absent"}
    /\ reply.kind \in {"list", "absent"}
    /\ reply.list = <<>> \/ reply.list[1].id = ""

\* C11: after a 2xx, decodable dns_zone_get reply that names no zone,
\* getZoneInfo has not failed, the three IDs are empty and client_get_id is
\* the next call; that call carries the empty owning-user ID and, when it
\* succeeds, getZoneInfo returns the account ID of its reply.
C11_ZoneNotFoundIsNoFailure ==
    /\ ZoneNotFound(200..299) =>
           /\ err = Nil /\ fatal = ""
           /\ found = NoZone
           /\ pc = "client_get_id"
    /\ (/\ Len(calls) > 0 /\ LastCall.ep = "client_get_id"
        /\ found.zoneID = ""
        /\ ~reply.neterr /\ reply.status \in 200..299 /\ reply.json
        /\ reply.kind = "number") =>
           /\ LastCall.sys_userid = ""
           /\ err = Nil
           /\ zoneInfo.ID = "" /\ zoneInfo.ServerID = ""
           /\ zoneInfo.SysUserID = ""
           /\ zoneInfo.ClientId = reply.num

\* C12: no dns_txt_add call carries an empty zone ID.
C12_NoAddWithEmptyZone ==
    \A i \in 1..Len(calls) :
        calls[i].ep = "dns_txt_add" => calls[i].params.zone # ""

\* The errors that reject a reply for its HTTP status.
StatusErrors == {ErrZoneStatus, ErrClientStatus, ErrHttpStatus}

\* C13: after each call, a reply of a non-2xx status has made the calling
\* function fail, and a reply of a 2xx status has not been rejected for
\* its status.
C13_StatusDecidesFailure ==
    (Len(calls) > 0 /\ ~reply.neterr) =>
        /\ reply.status \notin 200..299 => err # Nil
        /\ reply.status \in 200..299 => err \notin StatusErrors

\* A reply r to dns_txt_get, under a status of the set S, with the code
\* "ok" and a result list whose first entry is an object with a string id.
LookupFound(r, S) ==
    /\ ~r.neterr /\ r.status \in S /\ r.json
    /\ r.codekind = "string" /\ r.code = "ok"
    /\ r.kind = "list" /\ Len(r.list) > 0
    /\ r.list[1].obj /\ r.list[1].idkind = "string"

\* A reply r to dns_txt_delete, under a status of the set S, whose body
\* carries the code "ok".
DeleteAccepted(r, S) ==
    /\ ~r.neterr /\ r.status \in S /\ r.json
    /\ r.codekind = "string" /\ r.code = "ok"

\* This step posts a call to the endpoint ep.
Posts(ep) ==
    /\ Len(calls') = Len(calls) + 1
    /\ calls'[Len(calls')].ep = ep

\* The delete calls among a sequence of calls.
Deletes(cs) == {i \in 1..Len(cs) : cs[i].ep = "dns_txt_delete"}

\* C14: a dns_txt_delete call is posted only right after a dns_txt_get
\* call whose reply had a 2xx status, the code "ok" and a result list with
\* a first entry that is an object with a string id, and it is keyed by
\* that id.
C14_DeleteOnlyAfterLookupFound ==
    [][Posts("dns_txt_delete") =>
          /\ Len(calls) > 0 /\ LastCall.ep = "dns_txt_get"
          /\ LookupFound(reply, 200..299)
          /\ calls'[Len(calls')].primary_id = reply.list[1].id]_vars

C14_Witness ==
    /\ Issued("dns_txt_delete")
    /\ LastCall.primary_id = "R1"
    /\ err = ErrDelete

\* C15, the half of it that says what success requires: removeTxt returns
\* no error only when the lookup reply was 2xx with code "ok" and a first
\* record with an id and the delete reply was 2xx with a body whose code
\* is "ok".
C15_RemoveTxtOkOnlyIfBothOk ==
    [][(pc \in {"removeTxt", "dns_txt_delete"} /\ pc' = "exited"
        /\ err' = Nil) =>
          /\ pc = "dns_txt_delete"
          /\ LookupFound(reply, 200..299)
          /\ DeleteAccepted(reply', 200..299)]_vars

\* The last call failed: no reply, a body that is no JSON object, a status
\* or a code that the calling function rejects, or an error returned.
CallFailed ==
    /\ Len(calls) > 0
    /\ \/ reply.neterr
       \/ ~reply.json
       \/ LastCall.ep # "login" /\ reply.status # 200
       \/ /\ LastCall.ep \in {"login", "dns_txt_get"}
          /\ ~(reply.codekind = "string" /\ reply.code = "ok")
       \/ /\ LastCall.ep = "dns_txt_delete"
          /\ reply.codekind # "absent"
          /\ ~(reply.codekind = "string" /\ reply.code = "ok")
       \/ err # Nil

\* C16: once a call has failed the run has ended with a non-zero exit; an
\* ended run posts no call; no endpoint is called twice.
C16_FailureIsTerminal ==
    /\ [](CallFailed => (pc = "exited" /\ exitCode # 0))
    /\ [](\A i, j \in 1..Len(calls) : calls[i].ep = calls[j].ep => i = j)
    /\ [][pc = "exited" => calls' = calls]_vars

C16_Witness ==
    /\ CallFailed /\ LastCall.ep = "client_get_id"
    /\ reply.status = 500 /\ exitCode = 1
    /\ args.action = "cleanup"

\* The last call succeeded, as the function that posted it sees it.
CallSucceeded ==
    /\ err = Nil
    /\ ~reply.neterr /\ reply.json
    /\ LastCall.ep = "login" =>
           (reply.codekind = "string" /\ reply.code = "ok")
    /\ LastCall.ep # "login" => reply.status = 200
    /\ LastCall.ep = "dns_zone_get" => Len(reply.list) > 0

\* C17: the calls of a present run are a prefix of login, dns_zone_get,
\* client_get_id, dns_txt_add, and each but the first is posted only after
\* the one before it succeeded.
C17_PresentCallOrder ==
    /\ [](args.action = "present" =>
             IsPrefix(Endpoints, <<"login", "dns_zone_get",
                                   "client_get_id", "dns_txt_add">>))
    /\ [][(args.action = "present" /\ Len(calls) > 0
           /\ Len(calls') > Len(calls)) => CallSucceeded]_vars

C17_Witness ==
    /\ args.action = "present"
    /\ Endpoints = <<"login", "dns_zone_get", "client_get_id", "dns_txt_add">>
    /\ exitCode = 0 /\ pc = "exited"

\* C18: login is the first call of a run, every later call carries the
\* session ID that main got from login, and that ID does not change once
\* login has returned.
C18_SessionPassedUnchanged ==
    /\ [](Len(calls) > 0 =>
             /\ calls[1].ep = "login"
             /\ \A i \in 2..Len(calls) : calls[i].session_id = sessionId)
    /\ [][Len(calls) > 0 => sessionId' = sessionId]_vars

C18_Witness ==
    /\ Issued("dns_txt_delete")
    /\ sessionId = <<"s", Quote, "t">>
    /\ LastCall.session_id = <<"s", Quote, "t">>

\* C19: a run posts at most one of dns_txt_add and dns_txt_delete: a
\* present run no dns_txt_delete, a cleanup run no dns_txt_add, a run of
\* another action neither.
C19_OneMutatingCallOfTheAction ==
    /\ Cardinality({i \in 1..Len(calls) :
           calls[i].ep \in {"dns_txt_add", "dns_txt_delete"}}) <= 1
    /\ Issued("dns_txt_add") => args.action = "present"
    /\ Issued("dns_txt_delete") => args.action = "cleanup"

C19_Witness ==
    /\ args.action = "cleanup" /\ Issued("dns_txt_delete")
    /\ pc = "exited" /\ exitCode = 0

\* C20: when the lookup returned more than one record and removeTxt
\* returns no error, one delete call was posted, for the first entry of
\* the list, and none for a record of another id in the list.
C20_OnlyFirstRecordDeleted ==
    [][(/\ pc = "dns_txt_delete" /\ pc' = "exited" /\ err' = Nil
        /\ Len(reply.list) > 1) =>
          /\ Cardinality(Deletes(calls')) = 1
          /\ \A i \in Deletes(calls') :
                 calls'[i].primary_id = reply.list[1].id
          /\ \A k \in 2..Len(reply.list) :
                 reply.list[k].id # reply.list[1].id =>
                     \A i \in Deletes(calls') :
                         calls'[i].primary_id # reply.list[k].id]_vars

C20_Witness ==
    /\ pc = "exited" /\ exitCode = 0 /\ err = Nil
    /\ Issued("dns_txt_delete")
    /\ LastCall.primary_id = "R2"

====
